---- MODULE Spec2Model ----
(***************************************************************************)
(* A model of the asynchronous connection pool of httpcore                *)
(* (httpcore/_async/connection_pool.py), of the lazy connection it        *)
(* creates (httpcore/_async/connection.py) and of the HTTP/1.1 connection *)
(* behind it (httpcore/_async/http11.py).                                  *)
(*                                                                         *)
(* Every task issues one pool.handle_async_request and later closes the   *)
(* response it got.  A step of the model runs a task from one suspension  *)
(* point (a lock or event wait, a network connect, read, write or close)  *)
(* to the next one, so the interleavings of the model are those of the    *)
(* cooperative scheduler.                                                  *)
(***************************************************************************)
EXTENDS Integers, Sequences, FiniteSets, TLC

\* Number of concurrent tasks, each issuing one request.
NumTasks == 3
\* Number of distinct origins the requests are addressed to.
NumOrigins == 2
\* Largest max_connections a pool is configured with.
MaxPoolSize == 2
\* Largest request_count of a connection handed to attempt_aclose.
MaxCount == 2
\* Largest max_concurrent_streams of the HTTP/2 connection.
MaxStreams == 2
\* Largest number of stream ids the HTTP/2 connection can hand out.
MaxStreamIds == 3
\* Largest number of connect retries a connection is configured with.
MaxRetries == 2

\* The events the peer of an HTTP/2 connection sends.
MaxEvents == 3

Tasks == 1..NumTasks
Origins == 1..NumOrigins
\* The origins of the requests sent through a proxy: the https origins
\* 1..NumOrigins and as many http origins.
AllOrigins == 1..(2 * NumOrigins)
\* Connection objects alive at one time: at most max_connections in the pool
\* and one more referenced by each request status.
ConnIds == 1..(NumTasks + MaxPoolSize)

VARIABLES
    max_connections,            \* AsyncConnectionPool._max_connections
    max_keepalive_connections,  \* AsyncConnectionPool._max_keepalive_connections
    keepalive_expiry,           \* TRUE when a keepalive_expiry is configured
    proxy,                      \* TRUE when the pool is an AsyncHTTPProxy
    poolClose,                  \* how far a call of pool.aclose has got
    origin,                     \* origin[t]: request.url.origin of task t
    scheme,                     \* scheme[t]: request.url.scheme of task t
    poolTimeout,                \* the "pool" timeout of the request of task t
    pool,                       \* AsyncConnectionPool._pool
    requests,                   \* AsyncConnectionPool._requests
    statusConn,                 \* RequestStatus.connection (0 is None)
    conn,                       \* the connection objects
    reqLock,                    \* AsyncHTTPConnection._request_lock holder
    lk,                         \* AsyncConnectionPool._pool_lock and its holder's position
    pc,                         \* position of each task
    err,                        \* exception in flight in each task
    result,                     \* outcome of pool.handle_async_request
    closeResult,                \* outcomes of the body closes of each task
    closes,                     \* how many times the caller closes the body
    closeLog,                   \* what the body closes of each task did, in order
    probe,                      \* a connection on its own and the result of attempt_aclose on it
    h2,                         \* an AsyncHTTP2Connection on its own
    h2pc,                       \* position of each task in a request on h2
    h2sid,                      \* stream id of the request of each task on h2
    h2result,                   \* outcome of h2.handle_async_request of each task
    lazy,                       \* an AsyncHTTPConnection on its own, with its retries and request lock
    caller,                     \* position, connect attempts and outcome of each task's request on lazy
    rx                          \* the event queues of an HTTP/2 connection and what its peer sends

vars == <<max_connections, max_keepalive_connections, keepalive_expiry, proxy,
          poolClose, origin,
          scheme, poolTimeout, pool, requests, statusConn, conn, reqLock, lk, pc,
          err, result, closeResult, closes, closeLog, probe, h2, h2pc, h2sid,
          h2result, lazy, caller, rx>>

\* The connections exercised on their own, outside any pool.
aside == <<probe, h2, h2pc, h2sid, h2result, lazy, caller, rx>>

\* What nothing changes: the configuration of the pool, the requests of the
\* callers, and the connections outside the pool.
fixed == <<max_connections, max_keepalive_connections, keepalive_expiry, proxy,
           origin, scheme, closes, aside>>

\* What the requests and response closes of the tasks never change.
config == <<fixed, poolTimeout, poolClose>>

\* The variables of the pool, its connections and its callers.
poolVars == <<max_connections, max_keepalive_connections, keepalive_expiry, proxy,
              poolClose, origin,
              scheme, poolTimeout, pool, requests, statusConn, conn, reqLock, lk,
              pc, err, result, closeResult, closes, closeLog>>

\* URL schemes of the requests: two supported ones, an unsupported one and
\* the empty scheme.
Schemes == {"http", "https", "ftp", ""}

Supported == {"http", "https"}

Range(s) == {s[i] : i \in 1..Len(s)}

\* list.remove(x): drops the first occurrence of x.
RECURSIVE Remove(_, _)
Remove(s, x) ==
    IF s = <<>> THEN <<>>
    ELSE IF Head(s) = x THEN Tail(s)
    ELSE <<Head(s)>> \o Remove(Tail(s), x)

\* list.pop(idx), 1-based.
Pop(s, idx) == SubSeq(s, 1, idx - 1) \o SubSeq(s, idx + 1, Len(s))

\* MoveToFront that leaves the connection where it is.
MoveToFront_Stay(s, idx) == s

\* pool.pop(idx); pool.insert(0, connection)
MoveToFront(s, idx) == <<s[idx]>> \o Pop(s, idx)

----------------------------------------------------------------------------
\* Connection objects.

\* An unused connection id.
NoConn == [kind |-> "direct", origin |-> 0, inner |-> FALSE, connected |-> FALSE,
           state |-> "NEW", count |-> 0, codec |-> "idle", exp |-> "none"]

\* The scheme of an origin.
SchemeOf(o) == IF o <= NumOrigins THEN "https" ELSE "http"

\* AsyncHTTPConnection(origin): no inner connection yet.
create_connection(o) == [NoConn EXCEPT !.origin = o]

\* AsyncHTTPProxy.create_connection: a forward connection for an http origin
\* (it keeps no origin but the proxy's), a tunnel to the origin otherwise.
proxy_create_connection(o) ==
    IF SchemeOf(o) = "http"
    THEN [NoConn EXCEPT !.kind = "forward"]
    ELSE [NoConn EXCEPT !.kind = "tunnel", !.origin = o]

\* can_handle_request with a forward connection that takes any request.
can_handle_request_AnyScheme(cn, o) ==
    IF cn.kind = "forward" THEN TRUE ELSE o = cn.origin

\* can_handle_request of AsyncHTTPConnection and AsyncTunnelHTTPConnection
\* (the origin they were created for) and of AsyncForwardHTTPConnection (any
\* http origin).
can_handle_request(cn, o) ==
    IF cn.kind = "forward" THEN SchemeOf(o) = "http" ELSE o = cn.origin

\* is_available that is true in every state.
is_available_Always(cn) == TRUE

is_available(cn) == IF ~cn.inner THEN TRUE ELSE cn.state = "IDLE"

has_expired(cn) == IF ~cn.inner THEN FALSE ELSE cn.exp = "elapsed"

is_idle(cn) == IF ~cn.inner THEN FALSE ELSE cn.state = "IDLE"

is_closed(cn) == IF ~cn.inner THEN FALSE ELSE cn.state = "CLOSED"

\* AsyncHTTPConnection.aclose: closes the inner connection when there is one.
aclose(cn) == IF cn.inner THEN [cn EXCEPT !.state = "CLOSED"] ELSE cn

\* h11_accept without the count of the request.
h11_accept_NoCount(cn) ==
    [cn EXCEPT !.state = "ACTIVE", !.exp = "none", !.codec = "active"]

\* AsyncHTTP11Connection.handle_async_request accepts a request.
h11_accept(cn) ==
    [cn EXCEPT !.count = @ + 1, !.state = "ACTIVE", !.exp = "none",
               !.codec = "active"]

\* h11_response_closed that keeps the connection whatever the codec state.
h11_response_closed_KeepAlways(cn) ==
    [cn EXCEPT !.state = "IDLE", !.codec = "idle",
               !.exp = IF keepalive_expiry THEN "armed" ELSE cn.exp]

\* AsyncHTTP11Connection._response_closed
h11_response_closed(cn) ==
    IF cn.codec = "done"
    THEN [cn EXCEPT !.state = "IDLE", !.codec = "idle",
                    !.exp = IF keepalive_expiry THEN "armed" ELSE cn.exp]
    ELSE [cn EXCEPT !.state = "CLOSED"]

----------------------------------------------------------------------------
\* The code run under the pool lock.  S is the state it works on: the pool
\* and waiter lists, the connections, and the position in the code.

NoLock == [holder |-> 0, phase |-> "done", idx |-> 0, ri |-> 0, size |-> 0,
           cur |-> 0, ret |-> "none"]

Suspended == {"evict_wait", "expire_wait", "ka_wait", "done"}

Referenced(S) == Range(S.pool) \cup {S.statusConn[t] : t \in Tasks}

\* The status of a request that has raised, and the response of a caller that
\* has closed it for the last time, are dropped.
Dropped(t, ret) ==
    \/ ret = "rc_close" /\ Len(closeResult[t]) + 1 >= closes[t]
    \/ ret = "rc_err"

FreshId(S) == CHOOSE c \in ConnIds :
                 /\ c \notin Referenced(S)
                 /\ \A d \in ConnIds : d \notin Referenced(S) => c <= d

\* ReuseIdx without the test of the origin.
ReuseIdx_AnyOrigin(S, o) ==
    LET ok == {i \in 1..Len(S.pool) : is_available(S.conn[S.pool[i]])}
    IN IF ok = {} THEN 0 ELSE CHOOSE i \in ok : \A j \in ok : i <= j

\* The first connection in pool order that can take the request.
ReuseIdx(S, o) ==
    LET ok == {i \in 1..Len(S.pool) :
                 /\ can_handle_request(S.conn[S.pool[i]], o)
                 /\ is_available(S.conn[S.pool[i]])}
    IN IF ok = {} THEN 0 ELSE CHOOSE i \in ok : \A j \in ok : i <= j

\* IdleIdx that takes the idle connection closest to the front.
IdleIdx_Front(S) ==
    LET ok == {i \in 1..Len(S.pool) : is_idle(S.conn[S.pool[i]])}
    IN IF ok = {} THEN 0 ELSE CHOOSE i \in ok : \A j \in ok : i <= j

\* The idle connection closest to the back of the pool.
IdleIdx(S) ==
    LET ok == {i \in 1..Len(S.pool) : is_idle(S.conn[S.pool[i]])}
    IN IF ok = {} THEN 0 ELSE CHOOSE i \in ok : \A j \in ok : i >= j

Unassigned(S, s) == S.statusConn[s] = 0

\* The return of _attempt_to_acquire_connection to its caller: either
\* handle_async_request, or the re-dispatch loop of response_closed.
Acquired(S, c) ==
    IF S.ret = "enq"
    THEN [S EXCEPT !.statusConn[S.cur] = c, !.phase = "done"]
    ELSE IF c = 0
         THEN [S EXCEPT !.phase = "expire", !.idx = Len(S.pool)]
         ELSE [S EXCEPT !.statusConn[S.cur] = c, !.phase = "dispatch",
                        !.ri = S.ri + 1]

\* self.create_connection(origin) of the pool or of the proxy pool.
NewConnection(o) ==
    IF proxy THEN proxy_create_connection(o) ELSE create_connection(o)

\* AdmitOrCreate without the test for a full pool.
AdmitOrCreate_NoLimit(S) ==
    LET c == FreshId(S)
    IN Acquired([S EXCEPT !.pool = <<c>> \o S.pool,
                          !.conn[c] = NewConnection(origin[S.cur])], c)

\* The end of _attempt_to_acquire_connection: admission or a new connection.
AdmitOrCreate(S) ==
    IF Len(S.pool) >= max_connections
    THEN Acquired(S, 0)
    ELSE LET c == FreshId(S)
         IN Acquired([S EXCEPT !.pool = <<c>> \o S.pool,
                               !.conn[c] = NewConnection(origin[S.cur])], c)

\* attempt_to_acquire_connection without the test for queued requests in front.
attempt_to_acquire_connection_NoQueue(S) ==
    LET r == ReuseIdx(S, origin[S.cur])
        e == IdleIdx(S)
    IN IF r # 0
       THEN Acquired([S EXCEPT !.pool = MoveToFront(S.pool, r)], S.pool[r])
       ELSE IF Len(S.pool) >= max_connections /\ e # 0
       THEN [S EXCEPT !.conn[S.pool[e]] = aclose(S.conn[S.pool[e]]),
                      !.phase = "evict_wait", !.idx = e]
       ELSE AdmitOrCreate(S)

\* _attempt_to_acquire_connection, up to the close of an idle connection.
attempt_to_acquire_connection(S) ==
    LET waiting == SelectSeq(S.requests, LAMBDA s : Unassigned(S, s))
        r == ReuseIdx(S, origin[S.cur])
        e == IdleIdx(S)
    IN IF waiting # <<>> /\ Head(waiting) # S.cur
       THEN Acquired(S, 0)
       ELSE IF r # 0
       THEN Acquired([S EXCEPT !.pool = MoveToFront(S.pool, r)], S.pool[r])
       ELSE IF Len(S.pool) >= max_connections /\ e # 0
       THEN [S EXCEPT !.conn[S.pool[e]] = aclose(S.conn[S.pool[e]]),
                      !.phase = "evict_wait", !.idx = e]
       ELSE AdmitOrCreate(S)

\* The re-dispatch loop of response_closed, at position S.ri of the waiters.
Dispatch(S) ==
    IF S.ri > Len(S.requests)
    THEN [S EXCEPT !.phase = "expire", !.idx = Len(S.pool)]
    ELSE IF Unassigned(S, S.requests[S.ri])
    THEN [S EXCEPT !.phase = "acquire", !.cur = S.requests[S.ri]]
    ELSE [S EXCEPT !.ri = S.ri + 1]

\* _close_expired_connections, first loop, at pool index S.idx.
CloseExpired(S) ==
    IF S.idx = 0
    THEN [S EXCEPT !.phase = "keepalive", !.idx = Len(S.pool),
                   !.size = Len(S.pool)]
    ELSE IF has_expired(S.conn[S.pool[S.idx]])
    THEN [S EXCEPT !.conn[S.pool[S.idx]] = aclose(S.conn[S.pool[S.idx]]),
                   !.phase = "expire_wait"]
    ELSE [S EXCEPT !.idx = S.idx - 1]

\* _close_expired_connections, second loop, at pool index S.idx.
CloseKeepalive(S) ==
    IF S.idx = 0
    THEN [S EXCEPT !.phase = "done"]
    ELSE IF is_idle(S.conn[S.pool[S.idx]]) /\ S.size > max_keepalive_connections
    THEN [S EXCEPT !.conn[S.pool[S.idx]] = aclose(S.conn[S.pool[S.idx]]),
                   !.phase = "ka_wait"]
    ELSE [S EXCEPT !.idx = S.idx - 1]

\* One step of the code under the pool lock.
LockStep(S) ==
    CASE S.phase = "acquire" -> attempt_to_acquire_connection(S)
      [] S.phase = "evict_resume" ->
            AdmitOrCreate([S EXCEPT !.pool = Pop(S.pool, S.idx)])
      [] S.phase = "dispatch" -> Dispatch(S)
      [] S.phase = "expire" -> CloseExpired(S)
      [] S.phase = "expire_resume" ->
            [S EXCEPT !.pool = Pop(S.pool, S.idx), !.idx = S.idx - 1,
                      !.phase = "expire"]
      [] S.phase = "keepalive" -> CloseKeepalive(S)
      [] S.phase = "ka_resume" ->
            [S EXCEPT !.pool = Pop(S.pool, S.idx), !.idx = S.idx - 1,
                      !.size = S.size - 1, !.phase = "keepalive"]

\* Runs the code under the pool lock up to its next suspension point.
RECURSIVE Run(_)
Run(S) == IF S.phase \in Suspended THEN S ELSE Run(LockStep(S))

\* Connection objects nobody refers to any more are forgotten.
Collect(S) ==
    [S EXCEPT !.conn = [c \in ConnIds |->
                          IF c \in Referenced(S) THEN S.conn[c] ELSE NoConn]]

----------------------------------------------------------------------------
\* attempt_aclose of the connection variants, on a connection of its own.
\* Each returns the connection it leaves and the value it returns.

Kinds == {"http11", "lazy", "forward", "tunnel"}

\* The states a connected HTTP/1.1 connection can be in.
ConnRecords ==
    {cn \in [kind : {"direct"}, origin : {1}, inner : {TRUE},
             connected : {FALSE}, state : {"NEW", "ACTIVE", "IDLE", "CLOSED"}, count : 0..MaxCount,
             codec : {"idle", "active"}, exp : {"none", "armed", "elapsed"}] :
        /\ cn.state = "NEW" => cn.count = 0
        /\ cn.state \in {"ACTIVE", "IDLE"} => cn.count >= 1
        /\ cn.state \in {"NEW", "IDLE"} => cn.codec = "idle"
        /\ cn.state = "ACTIVE" => cn.codec = "active"
        /\ cn.exp # "none" => cn.state \in {"IDLE", "CLOSED"} /\ cn.count >= 1}

\* AsyncHTTP11Connection.attempt_aclose
h11_attempt_aclose(cn) ==
    IF cn.state \in {"NEW", "IDLE"}
    THEN [cn |-> [cn EXCEPT !.state = "CLOSED"], ret |-> "True"]
    ELSE [cn |-> cn, ret |-> "False"]

\* AsyncHTTPConnection.attempt_aclose
attempt_aclose(cn) ==
    IF cn.inner THEN h11_attempt_aclose(cn) ELSE [cn |-> cn, ret |-> "False"]

\* AsyncForwardHTTPConnection.attempt_aclose: no return statement.
forward_attempt_aclose(cn) == [cn |-> attempt_aclose(cn).cn, ret |-> "None"]

\* AsyncTunnelHTTPConnection.attempt_aclose: no return statement.
tunnel_attempt_aclose(cn) == [cn |-> attempt_aclose(cn).cn, ret |-> "None"]

\* The connections attempt_aclose is called on: any variant in any state.
Probes ==
    {[kind |-> k, cn |-> cn, ret |-> "none"] :
        k \in Kinds, cn \in ConnRecords \cup {create_connection(1)}}
    \ {[kind |-> "http11", cn |-> create_connection(1), ret |-> "none"]}

FirstProbe ==
    [kind |-> "http11", cn |-> [create_connection(1) EXCEPT !.inner = TRUE],
     ret |-> "none"]

AttemptClose ==
    /\ probe.ret = "none"
    /\ LET r == CASE probe.kind = "http11" -> h11_attempt_aclose(probe.cn)
                  [] probe.kind = "lazy" -> attempt_aclose(probe.cn)
                  [] probe.kind = "forward" -> forward_attempt_aclose(probe.cn)
                  [] probe.kind = "tunnel" -> tunnel_attempt_aclose(probe.cn)
       IN probe' = [probe EXCEPT !.cn = r.cn, !.ret = r.ret]
    /\ UNCHANGED <<poolVars, h2, h2pc, h2sid, h2result, lazy, caller, rx>>

----------------------------------------------------------------------------
\* An HTTP/2 connection on its own: the tasks call its handle_async_request.

\* AsyncHTTP2Connection.__init__, with max_concurrent_streams m, ids stream
\* ids to hand out, and a keepalive_expiry if ka.  lock is the holder of the
\* init lock, prefaces the number of connection prefaces written.
H2New(m, ids, ka) ==
    [state |-> "IDLE", count |-> 0, init |-> FALSE, used_all |-> FALSE,
     nextId |-> 1, idLimit |-> ids, events |-> {}, sem |-> m, max |-> m,
     exp |-> "none", keepalive |-> ka, lock |-> 0, prefaces |-> 0]

\* AsyncHTTP2Connection.is_available
h2_is_available(h) == h.state # "CLOSED" /\ ~h.used_all

\* AsyncHTTP2Connection.is_idle
h2_is_idle(h) == h.state = "IDLE"

\* h2_response_closed without the test of the state.
h2_response_closed_AnyState(h, sid) ==
    LET left == h.events \ {sid}
        idle == left = {}
    IN [h EXCEPT !.sem = @ + 1, !.events = left,
                 !.state = IF idle THEN "IDLE" ELSE @,
                 !.exp = IF idle /\ h.keepalive THEN "armed" ELSE @]

\* AsyncHTTP2Connection._response_closed
h2_response_closed(h, sid) ==
    LET left == h.events \ {sid}
        idle == h.state = "ACTIVE" /\ left = {}
    IN [h EXCEPT !.sem = @ + 1, !.events = left,
                 !.state = IF idle THEN "IDLE" ELSE @,
                 !.exp = IF idle /\ h.keepalive THEN "armed" ELSE @]

\* The streams that hold a slot of the streams semaphore.
OpenStreams(h) == h.max - h.sem

H2Unchanged == UNCHANGED <<poolVars, probe, lazy, caller, rx>>

\* handle_async_request up to the state lock: the request is counted and
\* the connection becomes ACTIVE, or the connection is not available.
H2Handle(t) ==
    /\ h2pc[t] = "start"
    /\ IF h2.state \in {"ACTIVE", "IDLE"}
       THEN /\ h2' = [h2 EXCEPT !.count = @ + 1, !.state = "ACTIVE",
                                !.exp = "none"]
            /\ h2pc' = [h2pc EXCEPT ![t] = "init"]
            /\ UNCHANGED h2result
       ELSE /\ h2pc' = [h2pc EXCEPT ![t] = "raised"]
            /\ h2result' = [h2result EXCEPT ![t] = "ConnectionNotAvailable"]
            /\ UNCHANGED h2
    /\ UNCHANGED h2sid
    /\ H2Unchanged

\* get_next_available_stream_id and the registration of the stream in
\* self._events, on connection h; NoAvailableStreamIDError marks the
\* connection and raises ConnectionNotAvailable.
H2Allocate(t, h) ==
    IF h.nextId > h.idLimit
    THEN /\ h2' = [h EXCEPT !.used_all = TRUE]
         /\ h2pc' = [h2pc EXCEPT ![t] = "raised"]
         /\ h2result' = [h2result EXCEPT ![t] = "ConnectionNotAvailable"]
         /\ UNCHANGED h2sid
    ELSE /\ h2' = [h EXCEPT !.nextId = @ + 1, !.events = @ \cup {h.nextId}]
         /\ h2sid' = [h2sid EXCEPT ![t] = h.nextId]
         /\ h2pc' = [h2pc EXCEPT ![t] = "acquire"]
         /\ UNCHANGED h2result

\* H2Init that does not take the init lock.
H2Init_NoLock(t) ==
    /\ h2pc[t] = "init"
    /\ IF ~h2.init
       THEN /\ h2' = [h2 EXCEPT !.lock = t]
            /\ h2pc' = [h2pc EXCEPT ![t] = "init_wait"]
            /\ UNCHANGED <<h2sid, h2result>>
       ELSE H2Allocate(t, h2)
    /\ H2Unchanged

\* The init lock is taken.  The first request starts to write the connection
\* preface and the SETTINGS and waits, holding the lock; a later request
\* leaves the lock at once and gets its stream id.
H2Init(t) ==
    /\ h2pc[t] = "init"
    /\ h2.lock = 0
    /\ IF ~h2.init
       THEN /\ h2' = [h2 EXCEPT !.lock = t]
            /\ h2pc' = [h2pc EXCEPT ![t] = "init_wait"]
            /\ UNCHANGED <<h2sid, h2result>>
       ELSE H2Allocate(t, h2)
    /\ H2Unchanged

\* The preface is written: _sent_connection_init is set, the streams
\* semaphore is created, the init lock is released, and the request gets its
\* stream id.
H2InitComplete(t) ==
    /\ h2pc[t] = "init_wait"
    /\ H2Allocate(t, [h2 EXCEPT !.init = TRUE, !.prefaces = @ + 1, !.lock = 0])
    /\ H2Unchanged

\* Writing the connection preface fails: the error leaves
\* handle_async_request before the try block, releasing the init lock.
H2InitFailed(t) ==
    /\ h2pc[t] = "init_wait"
    /\ h2' = [h2 EXCEPT !.lock = 0]
    /\ h2pc' = [h2pc EXCEPT ![t] = "raised"]
    /\ h2result' = [h2result EXCEPT ![t] = "WriteError"]
    /\ UNCHANGED h2sid
    /\ H2Unchanged

\* H2Acquire that does not wait for a free slot.
H2Acquire_NoWait(t) ==
    /\ h2pc[t] = "acquire"
    /\ h2' = [h2 EXCEPT !.sem = @ - 1]
    /\ h2pc' = [h2pc EXCEPT ![t] = "exchange"]
    /\ UNCHANGED <<h2sid, h2result>>
    /\ H2Unchanged

\* await self._max_streams_semaphore.acquire()
H2Acquire(t) ==
    /\ h2pc[t] = "acquire"
    /\ h2.sem > 0
    /\ h2' = [h2 EXCEPT !.sem = @ - 1]
    /\ h2pc' = [h2pc EXCEPT ![t] = "exchange"]
    /\ UNCHANGED <<h2sid, h2result>>
    /\ H2Unchanged

\* The request is sent and the response headers arrive.
H2ExchangeComplete(t) ==
    /\ h2pc[t] = "exchange"
    /\ h2pc' = [h2pc EXCEPT ![t] = "response"]
    /\ h2result' = [h2result EXCEPT ![t] = "Response"]
    /\ UNCHANGED <<h2, h2sid>>
    /\ H2Unchanged

\* _receive_events raises RemoteProtocolError (the peer disconnected, or an
\* event carries an error_code: GOAWAY, RST_STREAM) while the response is
\* awaited; handle_async_request runs _response_closed and re-raises.
H2ExchangeFailed(t) ==
    /\ h2pc[t] = "exchange"
    /\ h2' = h2_response_closed(h2, h2sid[t])
    /\ h2pc' = [h2pc EXCEPT ![t] = "raised"]
    /\ h2result' = [h2result EXCEPT ![t] = "RemoteProtocolError"]
    /\ UNCHANGED h2sid
    /\ H2Unchanged

\* _receive_events raises RemoteProtocolError while the body is read; the
\* error reaches the caller, who still holds the response.
H2ReadFailed(t) ==
    /\ h2pc[t] = "response"
    /\ h2pc' = [h2pc EXCEPT ![t] = "broken"]
    /\ h2result' = [h2result EXCEPT ![t] = "RemoteProtocolError"]
    /\ UNCHANGED <<h2, h2sid>>
    /\ H2Unchanged

\* HTTP2ConnectionByteStream.aclose
H2CloseResponse(t) ==
    /\ h2pc[t] \in {"response", "broken"}
    /\ h2' = h2_response_closed(h2, h2sid[t])
    /\ h2pc' = [h2pc EXCEPT ![t] = "done"]
    /\ UNCHANGED <<h2sid, h2result>>
    /\ H2Unchanged

\* AsyncHTTP2Connection.aclose, called by the owner of the connection.
H2Close ==
    /\ h2.state # "CLOSED"
    /\ h2' = [h2 EXCEPT !.state = "CLOSED"]
    /\ UNCHANGED <<h2pc, h2sid, h2result>>
    /\ H2Unchanged

\* AsyncHTTP2Connection.attempt_aclose, when it closes.
H2AttemptClose ==
    /\ h2_is_idle(h2)
    /\ h2' = [h2 EXCEPT !.state = "CLOSED"]
    /\ UNCHANGED <<h2pc, h2sid, h2result>>
    /\ H2Unchanged

H2Step(t) ==
    \/ H2Handle(t)
    \/ H2Init(t)
    \/ H2InitComplete(t)
    \/ H2InitFailed(t)
    \/ H2Acquire(t)
    \/ H2ExchangeComplete(t)
    \/ H2ExchangeFailed(t)
    \/ H2ReadFailed(t)
    \/ H2CloseResponse(t)

----------------------------------------------------------------------------
\* A lazy connection on its own: the tasks call its handle_async_request.

\* AsyncHTTPConnection.__init__, created by a pool configured with n retries.
\* connects counts the transports that network_backend.connect has opened.
LazyNew(n) ==
    [retries |-> n, cn |-> create_connection(1), lock |-> 0, connects |-> 0]

\* A task that has not called the connection yet.
NoCall == [pc |-> "start", tries |-> 0, result |-> "pending"]

LazyUnchanged == UNCHANGED <<poolVars, probe, h2, h2pc, h2sid, h2result, rx>>

\* LazyHandle that does not take the request lock.
LazyHandle_NoLock(t) ==
    /\ caller[t].pc = "start"
    /\ IF ~lazy.cn.inner
       THEN /\ lazy' = [lazy EXCEPT !.lock = t]
            /\ caller' = [caller EXCEPT ![t].pc = "connecting", ![t].tries = 1]
       ELSE IF ~is_available(lazy.cn)
       THEN /\ caller' = [caller EXCEPT ![t].pc = "raised",
                                        ![t].result = "ConnectionNotAvailable"]
            /\ UNCHANGED lazy
       ELSE /\ caller' = [caller EXCEPT ![t].pc = "h11"]
            /\ UNCHANGED lazy
    /\ LazyUnchanged

\* AsyncHTTPConnection.handle_async_request under the request lock, up to
\* the call of network_backend.connect or of the inner connection.
LazyHandle(t) ==
    /\ caller[t].pc = "start"
    /\ lazy.lock = 0
    /\ IF ~lazy.cn.inner
       THEN /\ lazy' = [lazy EXCEPT !.lock = t]
            /\ caller' = [caller EXCEPT ![t].pc = "connecting", ![t].tries = 1]
       ELSE IF ~is_available(lazy.cn)
       THEN /\ caller' = [caller EXCEPT ![t].pc = "raised",
                                        ![t].result = "ConnectionNotAvailable"]
            /\ UNCHANGED lazy
       ELSE /\ caller' = [caller EXCEPT ![t].pc = "h11"]
            /\ UNCHANGED lazy
    /\ LazyUnchanged

\* network_backend.connect returned: the inner connection is created and
\* accepts the request.
LazyConnectComplete(t) ==
    /\ caller[t].pc = "connecting"
    /\ lazy' = [lazy EXCEPT !.lock = 0, !.connects = @ + 1,
                            !.cn = h11_accept([@ EXCEPT !.inner = TRUE])]
    /\ caller' = [caller EXCEPT ![t].pc = "exchange"]
    /\ LazyUnchanged

\* network_backend.connect raised ConnectError: it leaves
\* handle_async_request; the call is not repeated.
LazyConnectFailed(t) ==
    /\ caller[t].pc = "connecting"
    /\ lazy' = [lazy EXCEPT !.lock = 0]
    /\ caller' = [caller EXCEPT ![t].pc = "raised", ![t].result = "ConnectError"]
    /\ LazyUnchanged

\* AsyncHTTP11Connection.handle_async_request, the part under the state lock.
LazyH11Handle(t) ==
    /\ caller[t].pc = "h11"
    /\ IF lazy.cn.state \in {"NEW", "IDLE"}
       THEN /\ lazy' = [lazy EXCEPT !.cn = h11_accept(@)]
            /\ caller' = [caller EXCEPT ![t].pc = "exchange"]
       ELSE /\ caller' = [caller EXCEPT ![t].pc = "raised",
                                        ![t].result = "ConnectionNotAvailable"]
            /\ UNCHANGED lazy
    /\ LazyUnchanged

\* The request was sent and the response headers were received.
LazyExchangeComplete(t) ==
    /\ caller[t].pc = "exchange"
    /\ caller' = [caller EXCEPT ![t].pc = "response", ![t].result = "Response"]
    /\ UNCHANGED lazy
    /\ LazyUnchanged

\* The caller reads the body to its end and closes the response.
LazyCloseResponse(t) ==
    /\ caller[t].pc = "response"
    /\ lazy' = [lazy EXCEPT !.cn = h11_response_closed([@ EXCEPT !.codec = "done"])]
    /\ caller' = [caller EXCEPT ![t].pc = "done"]
    /\ LazyUnchanged

LazyStep(t) ==
    \/ LazyHandle(t)
    \/ LazyConnectComplete(t)
    \/ LazyConnectFailed(t)
    \/ LazyH11Handle(t)
    \/ LazyExchangeComplete(t)
    \/ LazyCloseResponse(t)

----------------------------------------------------------------------------
\* The event queues of an HTTP/2 connection: one request per stream, each
\* reading from the network when its own queue is empty.

\* The stream ids of the open requests.
Streams == 1..MaxStreams

\* A connection whose requests have registered their streams, with wire w to
\* be read, a sequence of events of h2, each for one stream: a reset
\* (RST_STREAM) carries an error_code, seq is the position of the event on
\* the wire.  The fields are self._events (events, open), the events each request has taken
\* from its queue (delivered), the events read from the network for each
\* open stream (arrived), and the stream of the error event that was raised
\* in each request (failed, 0 for none).
RxNew(w) ==
    [wire |-> w, open |-> Streams,
     events |-> [sid \in Streams |-> <<>>],
     delivered |-> [sid \in Streams |-> <<>>],
     arrived |-> [sid \in Streams |-> <<>>],
     failed |-> [sid \in Streams |-> 0]]

\* The loop over the events of one network read in _receive_events: an event
\* with an error_code raises, an event of a registered stream is appended to
\* the queue of its stream.
RECURSIVE receive_events(_, _, _)
receive_events(q, open, batch) ==
    IF batch = <<>>
    THEN [events |-> q, error |-> 0]
    ELSE LET e == Head(batch)
         IN IF e.kind = "reset"
            THEN [events |-> q, error |-> e.sid]
            ELSE receive_events(IF e.sid \in open
                                THEN [q EXCEPT ![e.sid] = Append(@, e)]
                                ELSE q,
                                open, Tail(batch))

RxUnchanged ==
    UNCHANGED <<poolVars, probe, h2, h2pc, h2sid, h2result, lazy, caller>>

\* _receive_stream_event of the request on stream r finds its queue empty
\* and calls _receive_events, which reads the next n events from the network.
\* An error is raised in this request, whose handle_async_request then
\* closes its stream.
RxReceive(r, n) ==
    /\ r \in rx.open
    /\ rx.events[r] = <<>>
    /\ n \in 1..Len(rx.wire)
    /\ LET batch == SubSeq(rx.wire, 1, n)
           d == receive_events(rx.events, rx.open, batch)
       IN rx' = [rx EXCEPT
                   !.wire = SubSeq(rx.wire, n + 1, Len(rx.wire)),
                   !.arrived = [sid \in Streams |->
                                   IF sid \in rx.open
                                   THEN @[sid] \o SelectSeq(batch, LAMBDA e : e.sid = sid)
                                   ELSE @[sid]],
                   !.events = IF d.error # 0 THEN [d.events EXCEPT ![r] = <<>>]
                                             ELSE d.events,
                   !.failed[r] = d.error,
                   !.open = IF d.error # 0 THEN @ \ {r} ELSE @]
    /\ RxUnchanged

\* _receive_stream_event: return self._events[stream_id].pop(0)
RxTake(r) ==
    /\ r \in rx.open
    /\ rx.events[r] # <<>>
    /\ rx' = [rx EXCEPT !.events[r] = Tail(@),
                        !.delivered[r] = Append(@, Head(rx.events[r]))]
    /\ RxUnchanged

\* _response_closed of the request on stream r: del self._events[stream_id]
RxClose(r) ==
    /\ r \in rx.open
    /\ rx' = [rx EXCEPT !.open = @ \ {r}, !.events[r] = <<>>]
    /\ RxUnchanged

----------------------------------------------------------------------------
\* The initial state: a pool right after construction and tasks that have not
\* called it yet.

Init ==
    /\ max_connections \in 1..MaxPoolSize
    /\ max_keepalive_connections \in 0..max_connections
    /\ keepalive_expiry \in BOOLEAN
    /\ proxy \in BOOLEAN
    /\ poolClose = "open"
    /\ closes \in [Tasks -> 1..2]
    /\ origin \in [Tasks -> AllOrigins]
    /\ scheme \in [Tasks -> Schemes]
    /\ poolTimeout \in [Tasks -> {"none", "set"}]
    /\ pool = <<>>
    /\ requests = <<>>
    /\ statusConn = [t \in Tasks |-> 0]
    /\ conn = [c \in ConnIds |-> NoConn]
    /\ reqLock = [c \in ConnIds |-> 0]
    /\ lk = NoLock
    /\ pc = [t \in Tasks |-> "start"]
    /\ err = [t \in Tasks |-> "none"]
    /\ result = [t \in Tasks |-> "pending"]
    /\ closeResult = [t \in Tasks |-> <<>>]
    /\ closeLog = [t \in Tasks |-> <<>>]

\* Return with ConnectionNotAvailable re-raised like any other exception.
Return_NoRetry(t, ret) ==
    CASE ret = "enq" ->
            /\ pc' = [pc EXCEPT ![t] = "wait"]
            /\ UNCHANGED <<err, result, closeResult>>
      [] ret = "rc_err" ->
            /\ pc' = [pc EXCEPT ![t] = "raised"]
            /\ result' = [result EXCEPT ![t] = err[t]]
            /\ err' = [err EXCEPT ![t] = "none"]
            /\ UNCHANGED closeResult
      [] ret = "rc_close" ->
            /\ pc' = [pc EXCEPT ![t] = "done"]
            /\ closeResult' = [closeResult EXCEPT
                  ![t] = Append(@, IF err[t] = "none" THEN "ok" ELSE err[t])]
            /\ err' = [err EXCEPT ![t] = "none"]
            /\ UNCHANGED result

\* What a task does once the code it ran under the pool lock has returned.
\* ret = "enq": handle_async_request goes on to wait for its connection.
\* ret = "rc_err": the except clause of handle_async_request retries after
\* ConnectionNotAvailable and re-raises anything else.
\* ret = "rc_close": ConnectionPoolByteStream.aclose returns, or re-raises the
\* error of the inner close.
Return(t, ret) ==
    CASE ret = "enq" ->
            /\ pc' = [pc EXCEPT ![t] = "wait"]
            /\ UNCHANGED <<err, result, closeResult>>
      [] ret = "rc_err" ->
            /\ pc' = [pc EXCEPT ![t] = IF err[t] = "CNA" THEN "retry" ELSE "raised"]
            /\ result' = [result EXCEPT ![t] = IF err[t] = "CNA" THEN @ ELSE err[t]]
            /\ err' = [err EXCEPT ![t] = "none"]
            /\ UNCHANGED closeResult
      [] ret = "rc_close" ->
            /\ pc' = [pc EXCEPT ![t] = "done"]
            /\ closeResult' = [closeResult EXCEPT
                  ![t] = Append(@, IF err[t] = "none" THEN "ok" ELSE err[t])]
            /\ err' = [err EXCEPT ![t] = "none"]
            /\ UNCHANGED result

\* list.remove raised ValueError inside response_closed: the lock is released
\* and the error replaces whatever was in flight.
RaiseValueError(t, ret) ==
    /\ err' = [err EXCEPT ![t] = "none"]
    /\ IF ret = "rc_err"
       THEN /\ pc' = [pc EXCEPT ![t] = "raised"]
            /\ result' = [result EXCEPT ![t] = "ValueError"]
            /\ UNCHANGED closeResult
       ELSE /\ pc' = [pc EXCEPT ![t] = "done"]
            /\ closeResult' = [closeResult EXCEPT ![t] = Append(@, "ValueError")]
            /\ UNCHANGED result

\* Stores the state the code under the pool lock has reached: either it has
\* returned and the lock is free, or task t keeps the lock while it waits for
\* a connection to finish closing.
Commit(t, S0) ==
    LET S == Collect(IF S0.phase = "done" /\ Dropped(t, S0.ret)
                     THEN [S0 EXCEPT !.statusConn[t] = 0] ELSE S0)
    IN /\ pool' = S.pool
       /\ requests' = S.requests
       /\ statusConn' = S.statusConn
       /\ conn' = S.conn
       /\ IF S.phase = "done"
          THEN /\ lk' = NoLock
               /\ Return(t, S.ret)
          ELSE /\ lk' = [holder |-> t, phase |-> S.phase, idx |-> S.idx,
                         ri |-> S.ri, size |-> S.size, cur |-> S.cur,
                         ret |-> S.ret]
               /\ pc' = [pc EXCEPT ![t] = "locked"]
               /\ UNCHANGED <<err, result, closeResult>>

Locked(reqs, pl, sc, phase, ri, cur, ret) ==
    [pool |-> pl, requests |-> reqs, statusConn |-> sc, conn |-> conn,
     phase |-> phase, idx |-> 0, ri |-> ri, size |-> 0, cur |-> cur, ret |-> ret]

\* HandleAsyncRequest without the test of the URL scheme.
HandleAsyncRequest_AnyScheme(t) ==
    /\ pc[t] \in {"start", "retry"}
    /\ lk.holder = 0
    /\ Commit(t, Run(Locked(Append(requests, t), pool,
                            [statusConn EXCEPT ![t] = 0], "acquire", 0, t, "enq")))
    /\ UNCHANGED <<config, reqLock, closeLog>>

\* AsyncConnectionPool.handle_async_request with a URL scheme that is empty
\* or neither http nor https: raises before anything else is done.
UnsupportedScheme(t) ==
    /\ pc[t] \in {"start", "retry"}
    /\ scheme[t] \notin Supported
    /\ pc' = [pc EXCEPT ![t] = "raised"]
    /\ result' = [result EXCEPT ![t] = "UnsupportedProtocol"]
    /\ UNCHANGED <<config, pool, requests, statusConn, conn, reqLock, lk, err,
                   closeResult, closeLog>>

\* AsyncConnectionPool.handle_async_request, from the test of the scheme and
\* the creation of the status to the release of the pool lock.
HandleAsyncRequest(t) ==
    /\ pc[t] \in {"start", "retry"}
    /\ scheme[t] \in Supported
    /\ lk.holder = 0
    /\ Commit(t, Run(Locked(Append(requests, t), pool,
                            [statusConn EXCEPT ![t] = 0], "acquire", 0, t, "enq")))
    /\ UNCHANGED <<config, reqLock, closeLog>>

\* RemoveIfClosed that leaves the pool as it is.
RemoveIfClosed_Keep(pl, c) == pl

\* response_closed: if connection.is_closed(): self._pool.remove(connection)
RemoveIfClosed(pl, c) == IF is_closed(conn[c]) THEN Remove(pl, c) ELSE pl

\* AsyncConnectionPool.response_closed, from taking the pool lock.
ResponseClosed(t) ==
    /\ pc[t] \in {"rc_err", "rc_close"}
    /\ lk.holder = 0
    /\ closeLog' = [closeLog EXCEPT ![t] = IF pc[t] = "rc_close" THEN Append(@, "rc") ELSE @]
    /\ LET c == statusConn[t]
           reqs == Remove(requests, t)
           gone == Collect([pool |-> pool, conn |-> conn,
                            statusConn |-> IF Dropped(t, pc[t])
                                           THEN [statusConn EXCEPT ![t] = 0]
                                           ELSE statusConn])
       IN IF t \notin Range(requests)
          THEN /\ RaiseValueError(t, pc[t])
               /\ statusConn' = gone.statusConn
               /\ conn' = gone.conn
               /\ UNCHANGED <<pool, requests, lk>>
          ELSE IF is_closed(conn[c]) /\ c \notin Range(pool)
          THEN /\ RaiseValueError(t, pc[t])
               /\ requests' = reqs
               /\ statusConn' = gone.statusConn
               /\ conn' = gone.conn
               /\ UNCHANGED <<pool, lk>>
          ELSE Commit(t, Run(Locked(reqs, RemoveIfClosed(pool, c),
                                    statusConn, "dispatch", 1, 0, pc[t])))
    /\ UNCHANGED <<config, reqLock>>

\* The network stream of a connection closed under the pool lock has finished
\* closing; the holder of the lock goes on.
CloseCompletes(t) ==
    /\ pc[t] = "locked"
    /\ lk.holder = t
    /\ LET resume == CASE lk.phase = "evict_wait" -> "evict_resume"
                       [] lk.phase = "expire_wait" -> "expire_resume"
                       [] lk.phase = "ka_wait" -> "ka_resume"
       IN Commit(t, Run([pool |-> pool, requests |-> requests,
                         statusConn |-> statusConn, conn |-> conn,
                         phase |-> resume, idx |-> lk.idx, ri |-> lk.ri,
                         size |-> lk.size, cur |-> lk.cur, ret |-> lk.ret]))
    /\ UNCHANGED <<config, reqLock, closeLog>>

\* An exception leaves connection.handle_async_request: the except clause of
\* the pool calls response_closed.
Raise(t, e) ==
    /\ err' = [err EXCEPT ![t] = e]
    /\ pc' = [pc EXCEPT ![t] = "rc_err"]

\* status.wait_for_connection returns and the handle_async_request of the
\* connection runs up to the connect, or up to the call of the inner
\* connection.  An AsyncHTTPConnection tests the origin of the request; a
\* forward connection hands it a request addressed to the proxy; a tunnel
\* takes its connect lock and, while not connected, hands it a CONNECT
\* request addressed to the proxy, and once connected calls the HTTP/1.1
\* connection to the remote origin.  reqLock is the request lock of the
\* AsyncHTTPConnection, or the connect lock of the tunnel around it.
WaitAndHandle(t) ==
    /\ pc[t] = "wait"
    /\ statusConn[t] # 0
    /\ LET c == statusConn[t]
       IN /\ reqLock[c] = 0
          /\ IF conn[c].kind = "direct" /\ ~can_handle_request(conn[c], origin[t])
             THEN Raise(t, "RuntimeError") /\ UNCHANGED reqLock
             ELSE IF conn[c].connected
             THEN /\ pc' = [pc EXCEPT ![t] = "h11"]
                  /\ UNCHANGED <<err, reqLock>>
             ELSE IF ~conn[c].inner
             THEN /\ reqLock' = [reqLock EXCEPT ![c] = t]
                  /\ pc' = [pc EXCEPT ![t] = "connecting"]
                  /\ UNCHANGED err
             ELSE IF ~is_available(conn[c])
             THEN Raise(t, "CNA") /\ UNCHANGED reqLock
             ELSE IF conn[c].kind = "tunnel"
             THEN /\ reqLock' = [reqLock EXCEPT ![c] = t]
                  /\ pc' = [pc EXCEPT ![t] = "connecting"]
                  /\ UNCHANGED err
             ELSE /\ pc' = [pc EXCEPT ![t] = "h11"]
                  /\ UNCHANGED <<err, reqLock>>
    /\ UNCHANGED <<config, pool, requests, statusConn, conn, lk, result,
                   closeResult, closeLog>>

\* network_backend.connect (and start_tls) returned: the inner HTTP/1.1
\* connection is created in state NEW and the request is handed to it.  No
\* other task can act on a connection in state NEW (it is neither available
\* nor idle), so the step goes on to the acceptance of the request under the
\* state lock.
ConnectComplete(t) ==
    /\ pc[t] = "connecting"
    /\ conn[statusConn[t]].kind # "tunnel"
    /\ LET c == statusConn[t]
       IN /\ conn' = [conn EXCEPT ![c] = h11_accept([@ EXCEPT !.inner = TRUE,
                                                             !.state = "NEW"])]
          /\ reqLock' = [reqLock EXCEPT ![c] = 0]
    /\ pc' = [pc EXCEPT ![t] = "exchange"]
    /\ UNCHANGED <<config, pool, requests, statusConn, lk, err, result,
                   closeResult, closeLog>>

\* network_backend.connect (or start_tls) raised.
ConnectFailed(t) ==
    /\ pc[t] = "connecting"
    /\ reqLock' = [reqLock EXCEPT ![statusConn[t]] = 0]
    /\ Raise(t, "ConnectError")
    /\ UNCHANGED <<config, pool, requests, statusConn, conn, lk, result,
                   closeResult, closeLog>>

\* AsyncHTTP11Connection.can_handle_request, for the request the connection
\* is handed: a forward connection hands it a request addressed to the
\* proxy, which is the origin of its HTTP/1.1 connection.
h11_can_handle_request(cn, o) == cn.kind = "forward" \/ o = cn.origin

\* H11Handle without the test of the connection state.
H11Handle_AnyState(t) ==
    /\ pc[t] = "h11"
    /\ conn' = [conn EXCEPT ![statusConn[t]] = h11_accept(@)]
    /\ pc' = [pc EXCEPT ![t] = "exchange"]
    /\ UNCHANGED <<config, pool, requests, statusConn, reqLock, lk, err, result,
                   closeResult, closeLog>>

\* AsyncHTTP11Connection.handle_async_request, the part under the state lock.
H11Handle(t) ==
    /\ pc[t] = "h11"
    /\ LET c == statusConn[t]
       IN IF h11_can_handle_request(conn[c], origin[t])
             /\ conn[c].state \in {"NEW", "IDLE"}
          THEN /\ conn' = [conn EXCEPT ![c] = h11_accept(@)]
               /\ pc' = [pc EXCEPT ![t] = "exchange"]
               /\ UNCHANGED err
          ELSE /\ Raise(t, "CNA")
               /\ UNCHANGED conn
    /\ UNCHANGED <<config, pool, requests, statusConn, reqLock, lk, result,
                   closeResult, closeLog>>

\* The tunnel's connection to the proxy is open (network_backend.connect
\* returned): its HTTP/1.1 connection is created and accepts the CONNECT
\* request.  The task keeps the connect lock.
TunnelConnectSent(t) ==
    /\ pc[t] = "connecting"
    /\ conn[statusConn[t]].kind = "tunnel"
    /\ conn' = [conn EXCEPT ![statusConn[t]] =
                    h11_accept([@ EXCEPT !.inner = TRUE, !.state = "NEW"])]
    /\ pc' = [pc EXCEPT ![t] = "tunnel"]
    /\ UNCHANGED <<config, pool, requests, statusConn, reqLock, lk, err, result,
                   closeResult, closeLog>>

\* The proxy answered CONNECT with a 2xx status and start_tls returned: the
\* connection to the proxy is replaced by a new HTTP/1.1 connection to the
\* remote origin, the tunnel is connected, the connect lock is released and
\* the request is handed to the new connection.
TunnelEstablished(t) ==
    /\ pc[t] = "tunnel"
    /\ conn' = [conn EXCEPT ![statusConn[t]] =
                    [@ EXCEPT !.connected = TRUE, !.state = "NEW", !.count = 0,
                              !.codec = "idle", !.exp = "none"]]
    /\ reqLock' = [reqLock EXCEPT ![statusConn[t]] = 0]
    /\ pc' = [pc EXCEPT ![t] = "h11"]
    /\ UNCHANGED <<config, pool, requests, statusConn, lk, err, result,
                   closeResult, closeLog>>

\* TunnelRefused that leaves the connection to the proxy open.
TunnelRefused_KeepOpen(t) ==
    /\ pc[t] = "tunnel"
    /\ reqLock' = [reqLock EXCEPT ![statusConn[t]] = 0]
    /\ Raise(t, "ProxyError")
    /\ UNCHANGED <<config, pool, requests, statusConn, conn, lk, result,
                   closeResult, closeLog>>

\* The proxy answered CONNECT with a status outside 2xx: the connection to
\* the proxy is closed and ProxyError is raised.
TunnelRefused(t) ==
    /\ pc[t] = "tunnel"
    /\ conn' = [conn EXCEPT ![statusConn[t]] = aclose(@)]
    /\ reqLock' = [reqLock EXCEPT ![statusConn[t]] = 0]
    /\ Raise(t, "ProxyError")
    /\ UNCHANGED <<config, pool, requests, statusConn, lk, result, closeResult,
                   closeLog>>

\* Sending CONNECT or receiving its response raised (the HTTP/1.1 connection
\* to the proxy closes itself: closed), or start_tls raised after a 2xx
\* response (nothing closes the connection).
TunnelFailed(t, closed) ==
    /\ pc[t] = "tunnel"
    /\ conn' = [conn EXCEPT ![statusConn[t]] = IF closed THEN aclose(@) ELSE @]
    /\ reqLock' = [reqLock EXCEPT ![statusConn[t]] = 0]
    /\ Raise(t, "IOError")
    /\ UNCHANGED <<config, pool, requests, statusConn, lk, result, closeResult,
                   closeLog>>

\* The steps of a task inside AsyncTunnelHTTPConnection.handle_async_request.
TunnelStep(t) ==
    \/ TunnelConnectSent(t)
    \/ TunnelEstablished(t)
    \/ TunnelRefused(t)
    \/ \E closed \in BOOLEAN : TunnelFailed(t, closed)

\* The request was sent and the response headers were received.
ExchangeComplete(t) ==
    /\ pc[t] = "exchange"
    /\ conn[statusConn[t]].state = "ACTIVE"
    /\ pc' = [pc EXCEPT ![t] = "response"]
    /\ result' = [result EXCEPT ![t] = "response"]
    /\ UNCHANGED <<config, pool, requests, statusConn, conn, reqLock, lk, err,
                   closeResult, closeLog>>

\* Sending the request or receiving the response raised: the connection
\* closes itself and re-raises.
ExchangeFailed(t) ==
    /\ pc[t] = "exchange"
    /\ conn' = [conn EXCEPT ![statusConn[t]].state = "CLOSED"]
    /\ Raise(t, "IOError")
    /\ UNCHANGED <<config, pool, requests, statusConn, reqLock, lk, result,
                   closeResult, closeLog>>

\* The caller reads the body to its end.  Both sides of the codec are DONE
\* when the connection may be kept alive (keep), otherwise the peer's side
\* is MUST_CLOSE.
ReadBody(t, keep) ==
    /\ pc[t] = "response"
    /\ conn[statusConn[t]].state = "ACTIVE"
    /\ conn' = [conn EXCEPT ![statusConn[t]].codec = IF keep THEN "done" ELSE "must_close"]
    /\ pc' = [pc EXCEPT ![t] = "read"]
    /\ UNCHANGED <<config, pool, requests, statusConn, reqLock, lk, err, result,
                   closeResult, closeLog>>

\* CloseInner without the finally clause: an error of the inner close leaves
\* aclose at once.
CloseInner_NoFinally(t, fail) ==
    LET c == statusConn[t]
    IN /\ conn' = [conn EXCEPT ![c] = h11_response_closed(@)]
       /\ fail => conn[c].codec # "done"
       /\ closeLog' = [closeLog EXCEPT ![t] = Append(@, "inner")]
       /\ pc' = [pc EXCEPT ![t] = IF fail THEN "done" ELSE "rc_close"]
       /\ closeResult' = [closeResult EXCEPT
             ![t] = IF fail THEN Append(@, "CloseError") ELSE @]
       /\ UNCHANGED <<config, pool, requests, statusConn, reqLock, lk, result, err>>

\* ConnectionPoolByteStream.aclose, the try block: the inner stream is closed
\* (AsyncHTTP11Connection._response_closed).  Closing the network stream of a
\* connection that is not kept alive may raise (fail).
CloseInner(t, fail) ==
    LET c == statusConn[t]
    IN /\ conn' = [conn EXCEPT ![c] = h11_response_closed(@)]
       /\ fail => conn[c].codec # "done"
       /\ err' = [err EXCEPT ![t] = IF fail THEN "CloseError" ELSE "none"]
       /\ pc' = [pc EXCEPT ![t] = "rc_close"]
       /\ closeLog' = [closeLog EXCEPT ![t] = Append(@, "inner")]
       /\ UNCHANGED <<config, pool, requests, statusConn, reqLock, lk, result,
                      closeResult>>

\* The caller closes the response body.
CloseResponse(t, fail) ==
    /\ pc[t] \in {"response", "read"}
    /\ CloseInner(t, fail)

\* The caller closes the response body a second time.
CloseAgain(t, fail) ==
    /\ pc[t] = "done"
    /\ Len(closeResult[t]) < closes[t]
    /\ CloseInner(t, fail)

\* The task is cancelled while it waits for its connection or inside the
\* connection's handle_async_request.  CancelledError is not an Exception:
\* only the HTTP/1.1 connection's except BaseException clause sees it.
Cancel(t) ==
    /\ pc[t] \in {"wait", "connecting", "h11", "exchange"}
    /\ pc' = [pc EXCEPT ![t] = "cancelled"]
    /\ result' = [result EXCEPT ![t] = "Cancelled"]
    /\ reqLock' = [c \in ConnIds |-> IF reqLock[c] = t THEN 0 ELSE reqLock[c]]
    /\ conn' = IF pc[t] = "exchange"
               THEN [conn EXCEPT ![statusConn[t]].state = "CLOSED"]
               ELSE conn
    /\ UNCHANGED <<config, pool, requests, statusConn, lk, err, closeResult,
                   closeLog>>

\* Time passes: the keep-alive deadline of an idle connection elapses.
Tick(c) ==
    /\ conn[c].exp = "armed"
    /\ conn' = [conn EXCEPT ![c].exp = "elapsed"]
    /\ UNCHANGED <<config, pool, requests, statusConn, reqLock, lk, pc, err,
                   result, closeResult, closeLog>>

\* The caller of pool.aclose is not one of the tasks.
Closer == NumTasks + 1

\* AsyncConnectionPool.aclose returns: both lists are replaced by empty ones
\* and the pool lock is released.
PoolCloseReturns ==
    /\ pool' = <<>>
    /\ requests' = <<>>
    /\ conn' = Collect([pool |-> <<>>, conn |-> conn, statusConn |-> statusConn]).conn
    /\ lk' = NoLock
    /\ poolClose' = "closed"

\* AsyncConnectionPool.aclose calls aclose of the connection at pool index
\* idx and waits for it, holding the pool lock.
PoolCloseNext(idx) ==
    /\ conn' = [conn EXCEPT ![pool[idx]] = aclose(@)]
    /\ lk' = [NoLock EXCEPT !.holder = Closer, !.phase = "close_wait", !.idx = idx]
    /\ poolClose' = "closing"
    /\ UNCHANGED <<pool, requests>>

\* AsyncConnectionPool.aclose, from taking the pool lock.
PoolClose ==
    /\ poolClose = "open"
    /\ lk.holder = 0
    /\ IF pool = <<>> THEN PoolCloseReturns ELSE PoolCloseNext(1)
    /\ UNCHANGED <<fixed, poolTimeout, statusConn, reqLock, pc, err, result,
                   closeResult, closeLog>>

\* The connection being closed by pool.aclose has finished closing.
PoolCloseCompletes ==
    /\ lk.holder = Closer
    /\ IF lk.idx < Len(pool) THEN PoolCloseNext(lk.idx + 1) ELSE PoolCloseReturns
    /\ UNCHANGED <<fixed, poolTimeout, statusConn, reqLock, pc, err, result,
                   closeResult, closeLog>>

\* The steps of a task that is neither cancelled nor closes a body twice.
TaskStep(t) ==
    \/ HandleAsyncRequest(t)
    \/ WaitAndHandle(t)
    \/ ConnectComplete(t)
    \/ ConnectFailed(t)
    \/ H11Handle(t)
    \/ ExchangeComplete(t)
    \/ ExchangeFailed(t)
    \/ \E keep \in BOOLEAN : ReadBody(t, keep)
    \/ \E fail \in BOOLEAN : CloseResponse(t, fail)
    \/ ResponseClosed(t)
    \/ CloseCompletes(t)

\* A pool that is not a proxy, and requests to https origins, the first of
\* them to origin 1.
Direct ==
    /\ proxy = FALSE
    /\ origin \in {o \in [Tasks -> Origins] : o[1] = 1}

\* attempt_aclose is not called.
ParkedProbe == probe = FirstProbe

\* Nothing happens to the HTTP/2 connection.
ParkedH2 ==
    /\ h2 = H2New(1, 1, FALSE)
    /\ h2pc = [t \in Tasks |-> "start"]
    /\ h2sid = [t \in Tasks |-> 0]
    /\ h2result = [t \in Tasks |-> "pending"]

\* Nothing happens to the lazy connection.
ParkedLazy ==
    /\ lazy = LazyNew(0)
    /\ caller = [t \in Tasks |-> NoCall]

\* The peer of the HTTP/2 connection with event queues sends nothing.
ParkedRx == rx = RxNew(<<>>)

\* Nothing happens to the connections outside the pool.
ParkedAside == ParkedProbe /\ ParkedH2 /\ ParkedLazy /\ ParkedRx

\* Nothing happens in the pool.
ParkedPool ==
    /\ max_connections = 1
    /\ max_keepalive_connections = 1
    /\ keepalive_expiry = FALSE
    /\ closes = [t \in Tasks |-> 1]
    /\ scheme = [t \in Tasks |-> "https"]
    /\ poolTimeout = [t \in Tasks |-> "none"]
    /\ proxy = FALSE
    /\ origin = [t \in Tasks |-> 1]
    /\ Init

\* attempt_aclose called once on a connection of any variant in any state.
InitAttemptClose ==
    /\ ParkedPool
    /\ ParkedH2
    /\ ParkedLazy
    /\ ParkedRx
    /\ probe \in Probes

NextAttemptClose == AttemptClose

SpecAttemptClose == InitAttemptClose /\ [][NextAttemptClose]_vars

\* Concurrent requests on one HTTP/2 connection.
InitH2 ==
    /\ ParkedPool
    /\ ParkedProbe
    /\ ParkedLazy
    /\ ParkedRx
    /\ h2 \in {H2New(m, ids, ka) : m \in 1..MaxStreams, ids \in 1..MaxStreamIds,
                                   ka \in BOOLEAN}
    /\ h2pc = [t \in Tasks |-> "start"]
    /\ h2sid = [t \in Tasks |-> 0]
    /\ h2result = [t \in Tasks |-> "pending"]

NextH2 ==
    \/ \E t \in Tasks : H2Step(t)
    \/ H2AttemptClose
    \/ H2Close

SpecH2 == InitH2 /\ [][NextH2]_vars

\* Concurrent requests on one lazy connection configured with 0..MaxRetries
\* connect retries.
InitLazy ==
    /\ ParkedPool
    /\ ParkedProbe
    /\ ParkedH2
    /\ ParkedRx
    /\ lazy \in {LazyNew(n) : n \in 0..MaxRetries}
    /\ caller = [t \in Tasks |-> NoCall]

NextLazy == \E t \in Tasks : LazyStep(t)

SpecLazy == InitLazy /\ [][NextLazy]_vars

\* Requests on every stream of one HTTP/2 connection read the events its
\* peer sends, in network reads of any size.
InitH2Events ==
    /\ ParkedPool
    /\ ParkedProbe
    /\ ParkedH2
    /\ ParkedLazy
    /\ rx \in {RxNew([i \in 1..MaxEvents |->
                        [sid |-> f[i].sid, kind |-> f[i].kind, seq |-> i]]) :
                 f \in [1..MaxEvents -> [sid : Streams, kind : {"data", "reset"}]]}

NextH2Events ==
    \/ \E r \in Streams : \E n \in 1..MaxEvents : RxReceive(r, n)
    \/ \E r \in Streams : RxTake(r)
    \/ \E r \in Streams : RxClose(r)

SpecH2Events == InitH2Events /\ [][NextH2Events]_vars

\* Concurrent requests through a proxy pool, to http and https origins.
\* Tasks are interchangeable, and so are the origins of one scheme: the
\* origins of the tasks are taken in ascending order, and an origin is used
\* only if the one before it of the same scheme is.
InitProxy ==
    /\ ParkedAside
    /\ proxy = TRUE
    /\ max_connections = MaxPoolSize
    /\ max_keepalive_connections = MaxPoolSize
    /\ keepalive_expiry = FALSE
    /\ closes = [t \in Tasks |-> 1]
    /\ origin \in {o \in [Tasks -> AllOrigins] :
                     /\ \A t \in Tasks \ {NumTasks} : o[t] <= o[t + 1]
                     /\ \A t \in Tasks : o[t] \notin {1, NumOrigins + 1} =>
                            \E u \in Tasks : o[u] = o[t] - 1}
    /\ scheme = [t \in Tasks |-> SchemeOf(origin[t])]
    /\ poolTimeout = [t \in Tasks |-> "none"]
    /\ Init

NextProxy ==
    \/ \E t \in Tasks : TaskStep(t)
    \/ \E t \in Tasks : TunnelStep(t)

SpecProxy == InitProxy /\ [][NextProxy]_vars

\* Concurrent requests and response closes on a pool with a keep-alive expiry;
\* the deadline of an idle connection elapses at any time after it is set.
InitExpiry ==
    /\ ParkedAside
    /\ Direct
    /\ max_connections = MaxPoolSize
    /\ max_keepalive_connections = MaxPoolSize
    /\ keepalive_expiry = TRUE
    /\ closes = [t \in Tasks |-> 1]
    /\ scheme = [t \in Tasks |-> "https"]
    /\ poolTimeout = [t \in Tasks |-> "none"]
    /\ Init

NextExpiry ==
    \/ \E t \in Tasks : TaskStep(t)
    \/ \E c \in ConnIds : Tick(c)

SpecExpiry == InitExpiry /\ [][NextExpiry]_vars

\* Concurrent requests and response closes on a pool that is closed once, at
\* any time.
InitClose ==
    /\ ParkedAside
    /\ Direct
    /\ max_connections = MaxPoolSize
    /\ max_keepalive_connections = MaxPoolSize
    /\ keepalive_expiry = FALSE
    /\ closes = [t \in Tasks |-> 1]
    /\ scheme = [t \in Tasks |-> "https"]
    /\ poolTimeout = [t \in Tasks |-> "none"]
    /\ Init

NextClose ==
    \/ \E t \in Tasks : TaskStep(t)
    \/ PoolClose
    \/ PoolCloseCompletes

SpecClose == InitClose /\ [][NextClose]_vars

\* Concurrent requests and response closes on a pool without keep-alive
\* expiry; every caller closes its response once.
InitCore ==
    /\ ParkedAside
    /\ Direct
    /\ keepalive_expiry = FALSE
    /\ closes = [t \in Tasks |-> 1]
    /\ scheme = [t \in Tasks |-> "https"]
    /\ poolTimeout = [t \in Tasks |-> "none"]
    /\ Init

Next == \E t \in Tasks : TaskStep(t)

Spec == InitCore /\ [][Next]_vars

\* The same, with tasks that may be cancelled.
NextCancel ==
    \/ \E t \in Tasks : TaskStep(t)
    \/ \E t \in Tasks : Cancel(t)

SpecCancel == InitCore /\ [][NextCancel]_vars

\* The same, with a caller that closes its response body twice.
InitReclose ==
    /\ ParkedAside
    /\ Direct
    /\ keepalive_expiry = FALSE
    /\ closes = [t \in Tasks |-> IF t = 1 THEN 2 ELSE 1]
    /\ scheme = [t \in Tasks |-> "https"]
    /\ poolTimeout = [t \in Tasks |-> "none"]
    /\ Init

NextReclose ==
    \/ \E t \in Tasks : TaskStep(t)
    \/ \E t \in Tasks : \E fail \in BOOLEAN : CloseAgain(t, fail)

SpecReclose == InitReclose /\ [][NextReclose]_vars

\* Requests of which at least one has an unsupported or empty URL scheme.
InitScheme ==
    /\ ParkedAside
    /\ Direct
    /\ keepalive_expiry = FALSE
    /\ closes = [t \in Tasks |-> 1]
    /\ poolTimeout = [t \in Tasks |-> "none"]
    /\ Init
    /\ \E t \in Tasks : scheme[t] \notin Supported

NextScheme ==
    \/ \E t \in Tasks : TaskStep(t)
    \/ \E t \in Tasks : UnsupportedScheme(t)

SpecScheme == InitScheme /\ [][NextScheme]_vars

\* The pool deadline of a request passes while its status waits unassigned.
\* wait_for_connection takes no timeout, so nothing happens in the pool.
DeadlineElapses(t) ==
    /\ pc[t] = "wait"
    /\ statusConn[t] = 0
    /\ poolTimeout[t] = "set"
    /\ poolTimeout' = [poolTimeout EXCEPT ![t] = "missed"]
    /\ UNCHANGED <<fixed, poolClose, pool, requests, statusConn, conn, reqLock,
                   lk, pc, err, result, closeResult, closeLog>>

\* A pool of one connection; the last request carries a pool timeout.
InitTimeout ==
    /\ ParkedAside
    /\ Direct
    /\ max_connections = 1
    /\ keepalive_expiry = FALSE
    /\ closes = [t \in Tasks |-> 1]
    /\ scheme = [t \in Tasks |-> "https"]
    /\ poolTimeout = [t \in Tasks |-> IF t = NumTasks THEN "set" ELSE "none"]
    /\ Init

NextTimeout ==
    \/ \E t \in Tasks : TaskStep(t)
    \/ \E t \in Tasks : DeadlineElapses(t)

SpecTimeout == InitTimeout /\ [][NextTimeout]_vars

\* Requests issued one after another: a task calls the pool only when no
\* other request is under way; every exchange succeeds, every response is
\* read to its end on a connection that may be kept alive, and is closed.
SequentialStep(t) ==
    \/ /\ \A u \in Tasks \ {t} : pc[u] \in {"start", "done"}
       /\ HandleAsyncRequest(t)
    \/ WaitAndHandle(t)
    \/ ConnectComplete(t)
    \/ H11Handle(t)
    \/ ExchangeComplete(t)
    \/ ReadBody(t, TRUE)
    \/ pc[t] = "read" /\ CloseResponse(t, FALSE)
    \/ ResponseClosed(t)
    \/ CloseCompletes(t)

NextSequential == \E t \in Tasks : SequentialStep(t)

SpecSequential == InitCore /\ [][NextSequential]_vars

----------------------------------------------------------------------------
\* Properties of the pool.

IdleCount == Cardinality({i \in 1..Len(pool) : is_idle(conn[pool[i]])})

IsUnassigned(t) == t \in Range(requests) /\ statusConn[t] = 0

\* C1: in every reachable state the number of connections in the pool list
\* is at most max_connections.
C1_PoolWithinMaxConnections == Len(pool) <= max_connections

\* A full pool has refused a request: the pool holds max_connections
\* connections and a status waits without a connection.
C1_Witness ==
    /\ Len(pool) = max_connections
    /\ \E t \in Tasks : IsUnassigned(t) /\ pc[t] = "wait"

\* Task t can take a step: it is not waiting for a lock somebody holds nor
\* for a connection nobody has assigned, and it has not finished.
Runnable(t) ==
    \/ pc[t] \in {"start", "retry", "rc_err", "rc_close"} /\ lk.holder = 0
    \/ pc[t] \in {"start", "retry"} /\ scheme[t] \notin Supported
    \/ pc[t] = "wait" /\ statusConn[t] # 0 /\ reqLock[statusConn[t]] = 0
    \/ pc[t] \in {"connecting", "tunnel", "h11", "exchange", "response", "read",
                 "locked"}

\* C2: with every response eventually closed, every call of
\* pool.handle_async_request eventually returns a response or raises.  Stated
\* for finite runs: while a call has not returned, some task can take a step
\* (a state where none can is one the call never leaves, however the tasks
\* are scheduled).
C2_EveryRequestReturns ==
    (\A t \in Tasks : result[t] # "pending") \/ (\E t \in Tasks : Runnable(t))

\* The position of status s in the waiter list.
Position(reqs, s) == CHOOSE i \in 1..Len(reqs) : reqs[i] = s

\* Status s is given its connection in this step.
Assigned(s) ==
    /\ s \in Range(requests') /\ statusConn'[s] # 0
    /\ s \notin Range(requests) \/ statusConn[s] = 0

\* C3: the pool never assigns a connection to a status while a status enqueued
\* earlier is still unassigned.
C3_FifoAssignment ==
    [][\A s \in Tasks : Assigned(s) =>
          \A i \in 1..(Position(requests', s) - 1) :
              statusConn'[requests'[i]] # 0]_vars

\* The re-dispatch loop is serving the first of two unassigned waiters (it is
\* closing an idle connection to make room for it).
C3_Witness ==
    /\ lk.phase = "evict_wait" /\ lk.ret \in {"rc_err", "rc_close"}
    /\ \E s \in Tasks : /\ IsUnassigned(s) /\ IsUnassigned(lk.cur)
                         /\ Position(requests, lk.cur) < Position(requests, s)

\* The requests an HTTP/1.1 connection has accepted and whose response is
\* not yet received in full.
InFlight(c) ==
    {t \in Tasks : statusConn[t] = c /\ pc[t] \in {"exchange", "response"}}

\* C4: at most one request is in flight on an HTTP/1.1 connection, and
\* handle_async_request on a connection that is ACTIVE or CLOSED raises
\* ConnectionNotAvailable and leaves its state and request_count unchanged.
C4_OneRequestPerConnection ==
    /\ [](\A c \in ConnIds : Cardinality(InFlight(c)) <= 1)
    /\ [][\A t \in Tasks : pc[t] = "h11" /\ pc'[t] \notin {"h11", "cancelled"} =>
            LET c == statusConn[t]
            IN IF conn[c].state \in {"ACTIVE", "CLOSED"}
               THEN /\ pc'[t] = "rc_err" /\ err'[t] = "CNA"
                    /\ conn'[c] = conn[c]
               ELSE /\ pc'[t] = "exchange"
                    /\ conn'[c].state = "ACTIVE"
                    /\ conn'[c].count = conn[c].count + 1]_vars

\* A second request is about to be handled by a connection that is ACTIVE
\* with the request of another task.
C4_Witness ==
    \E t, u \in Tasks :
        /\ pc[t] = "h11" /\ pc[u] = "exchange"
        /\ statusConn[t] = statusConn[u]
        /\ conn[statusConn[t]].state = "ACTIVE"

\* C5: ConnectionNotAvailable never leaves pool.handle_async_request: the
\* status is released through response_closed and the request is retried.
C5_NotAvailableIsRetried ==
    \A t \in Tasks :
        /\ result[t] # "CNA"
        /\ pc[t] = "retry" => result[t] = "pending" /\ t \notin Range(requests)
        /\ err[t] = "CNA" => pc[t] \in {"rc_err", "locked"} /\ result[t] = "pending"

\* A request whose connection raised ConnectionNotAvailable is about to be
\* retried.
C5_Witness == \E t \in Tasks : pc[t] = "retry"

\* pool.handle_async_request of task t raises an I/O or protocol error in
\* this step.
RaisesIOError(t) ==
    result[t] = "pending" /\ result'[t] \in {"ConnectError", "IOError"}

\* C6: when pool.handle_async_request raises an I/O or protocol error, the
\* connection of the request is CLOSED and no longer in the pool.
C6_ErrorClosesConnection ==
    [][\A t \in Tasks : RaisesIOError(t) =>
          /\ is_closed(conn[statusConn[t]])
          /\ statusConn[t] \notin Range(pool')]_vars

\* C7: after a cancelled pool.handle_async_request its status is not in the
\* waiter list and no connection is left ACTIVE or retained in the pool on
\* its behalf.
C7_CancelReleases ==
    \A t \in Tasks : pc[t] = "cancelled" =>
        /\ t \notin Range(requests)
        /\ statusConn[t] # 0 /\ InFlight(statusConn[t]) = {} =>
              conn[statusConn[t]].state # "ACTIVE"

\* response_closed of task t returns in this step.
ResponseClosedReturns(t) ==
    /\ \/ pc[t] \in {"rc_err", "rc_close"}
       \/ pc[t] = "locked" /\ lk.ret \in {"rc_err", "rc_close"}
    /\ pc'[t] \in {"retry", "raised", "done"}
    /\ result'[t] # "ValueError"
    /\ pc'[t] = "done" => closeResult'[t][Len(closeResult'[t])] # "ValueError"

\* C8: immediately after any response_closed call completes, the number of
\* idle connections in the pool is at most max_keepalive_connections.
C8_IdleWithinKeepalive ==
    [][\A t \in Tasks : ResponseClosedReturns(t) =>
          IdleCount' <= max_keepalive_connections]_vars

\* Task t, which has closed its response body, closes it again in this step.
ClosesAgain(t) ==
    /\ pc[t] = "done" /\ Len(closeResult[t]) >= 1
    /\ pc'[t] # pc[t] \/ closeLog'[t] # closeLog[t]

\* C9: closing a pool-wrapped response body a second time is a no-op: no
\* second response_closed, no error, and the pool list, the waiter list and
\* the connections are unchanged.
C9_SecondCloseIsNoOp ==
    [][\A t \in Tasks : ClosesAgain(t) =>
          /\ pool' = pool /\ requests' = requests /\ conn' = conn
          /\ pc'[t] = "done"
          /\ closeResult'[t] = Append(closeResult[t], "ok")]_vars

\* C10: closing the body of a returned response closes the inner stream first
\* and then calls pool.response_closed for the status exactly once, also when
\* the inner close raises.
C10_CloseReleasesOnce ==
    \A t \in Tasks :
        /\ pc[t] \in {"response", "read"} => closeLog[t] = <<>>
        /\ pc[t] = "rc_close" => closeLog[t] = <<"inner">>
        /\ pc[t] = "done" => closeLog[t] = <<"inner", "rc">>

\* A body close whose inner close raised has called response_closed.
C10_Witness ==
    \E t \in Tasks : closeResult[t] = <<"CloseError">> /\ closeLog[t] = <<"inner", "rc">>

\* C11: the pool only gives a request a connection whose can_handle_request
\* is true for the origin of the request, so no request is sent over a
\* connection created for a different origin.
C11_SameOriginOnly ==
    \A t \in Tasks : statusConn[t] # 0 =>
        can_handle_request(conn[statusConn[t]], origin[t])

\* Requests to two origins are being sent at the same time, each over its
\* own connection, and one of the connections was reused.
C11_Witness ==
    \E t, u \in Tasks :
        /\ origin[t] # origin[u]
        /\ pc[t] = "exchange" /\ pc[u] = "exchange"
        /\ conn[statusConn[t]].count = 2

\* All requests go to one origin.
OneOrigin == \A t \in Tasks : origin[t] = origin[1]

\* The requests that were served and whose response is closed.
Served == {t \in Tasks : pc[t] = "done"}

\* Between two requests: the pool holds one idle connection that has
\* accepted all the requests served so far.
OneIdleConnection ==
    /\ Len(pool) = 1
    /\ is_idle(conn[pool[1]])
    /\ conn[pool[1]].count = Cardinality(Served)

\* The request_count of a connection of the pool grows by one or not at all.
CountGrowsByOne ==
    \A c \in Range(pool) \cap Range(pool') :
        conn'[c].count \in {conn[c].count, conn[c].count + 1}

ClosesInner(t) == pc[t] \in {"response", "read"} /\ pc'[t] = "rc_close"

\* C13: when an HTTP/1.1 response is closed the connection becomes IDLE if
\* and only if both sides of the codec are DONE; in every other case, an
\* unread body included, it becomes CLOSED.
C13_IdleIffCodecDone ==
    [][\A t \in Tasks : ClosesInner(t) =>
          LET c == statusConn[t]
          IN /\ conn[c].codec = "done" => conn'[c].state = "IDLE"
             /\ conn[c].codec # "done" => conn'[c].state = "CLOSED"]_vars

\* A response whose body was not read has been closed, and its connection
\* is CLOSED.
C13_Witness ==
    \E t \in Tasks :
        /\ pc[t] = "rc_close"
        /\ conn[statusConn[t]].codec = "active"
        /\ conn[statusConn[t]].state = "CLOSED"

\* response_closed runs for task t in this step.
RunsResponseClosed(t) ==
    pc[t] \in {"rc_err", "rc_close"} /\ pc'[t] # pc[t]

\* C14: a connection that is CLOSED when response_closed runs for its
\* request is not in the pool any more when the call returns or first
\* suspends.
C14_ClosedIsRemoved ==
    [][\A t \in Tasks :
          RunsResponseClosed(t) /\ is_closed(conn[statusConn[t]]) =>
              statusConn[t] \notin Range(pool')]_vars

\* response_closed is about to run for a response whose connection is
\* CLOSED and still in the pool.
C14_Witness ==
    \E t \in Tasks :
        /\ pc[t] = "rc_close" /\ lk.holder = 0
        /\ is_closed(conn[statusConn[t]])
        /\ statusConn[t] \in Range(pool)

\* C15 as stated: a request whose pool deadline passed before it was assigned
\* a connection does not go on; it fails with PoolTimeout and its status is
\* not in the waiter list.
C15_PoolTimeoutRaised ==
    \A t \in Tasks : poolTimeout[t] = "missed" =>
        \/ pc[t] = "wait"
        \/ result[t] = "PoolTimeout" /\ t \notin Range(requests)

\* Task t leaves pool.handle_async_request on the test of the URL scheme.
RejectsScheme(t) ==
    pc[t] \in {"start", "retry"} /\ scheme[t] \notin Supported /\ pc'[t] # pc[t]

\* C16: a request with a URL scheme other than http or https, the empty
\* scheme included, raises UnsupportedProtocol before a status is enqueued or
\* a connection created; the pool list and the waiter list are unchanged.
C16_UnsupportedProtocol ==
    /\ [](\A t \in Tasks : scheme[t] \notin Supported =>
              t \notin Range(requests) /\ statusConn[t] = 0)
    /\ [][\A t \in Tasks : RejectsScheme(t) =>
              /\ result'[t] = "UnsupportedProtocol"
              /\ pool' = pool /\ requests' = requests
              /\ conn' = conn /\ statusConn' = statusConn]_vars

\* A request without a scheme was refused by a pool that holds a connection
\* and a waiting request.
C16_Witness ==
    \E t \in Tasks :
        /\ scheme[t] = "" /\ result[t] = "UnsupportedProtocol"
        /\ pool # <<>> /\ requests # <<>>

\* Connection c is in the pool, and the holder of the pool lock is not about
\* to pop it after closing it.
Pooled(c) ==
    /\ c \in Range(pool)
    /\ lk.holder # 0 => pool[lk.idx] # c

\* Status s is given, in this step, a connection that was in the pool.
Reused(s) == Assigned(s) /\ Pooled(statusConn'[s])

\* A connection that has not accepted a request yet: a lazy connection that
\* is not connected, or an HTTP/1.1 connection in state NEW.
IsNew(cn) == ~cn.inner \/ cn.state = "NEW"

AttemptCloseReturns == probe.ret = "none" /\ probe'.ret # "none"

\* The call has closed the connection.
ClosedByCall == probe.cn.state # "CLOSED" /\ probe'.cn.state = "CLOSED"

\* C17 as stated: attempt_aclose on an HTTP/1.1, lazy, forward-proxy or
\* tunnel-proxy connection closes it only when its state is NEW or IDLE,
\* never while a request is ACTIVE, and returns true exactly when it closed
\* the connection.
C17_AttemptCloseResult ==
    [][AttemptCloseReturns =>
          /\ ClosedByCall => probe.cn.state \in {"NEW", "IDLE"}
          /\ probe.cn.state = "ACTIVE" => probe'.cn = probe.cn
          /\ probe'.ret = "True" <=> ClosedByCall]_vars

\* C19 as stated: an HTTP/2 connection is available exactly when it is not
\* CLOSED, its stream ids are not exhausted, and it has fewer open streams
\* than max_concurrent_streams.
C19_AvailableBelowStreamCap ==
    h2_is_available(h2) <=>
        /\ h2.state # "CLOSED"
        /\ ~h2.used_all
        /\ OpenStreams(h2) < h2.max

\* C20 as stated: when a request on an HTTP/2 connection fails with
\* RemoteProtocolError (GOAWAY, RST_STREAM, an event with an error_code, or
\* the peer disconnecting), the connection is CLOSED afterwards.
C20_ClosedOnProtocolError ==
    [][\A t \in Tasks :
          h2result[t] # "RemoteProtocolError"
              /\ h2result'[t] = "RemoteProtocolError"
          => h2'.state = "CLOSED"]_vars

\* The requests that have passed the streams semaphore of the HTTP/2
\* connection and whose stream is not closed yet.
Holders == {t \in Tasks : h2pc[t] \in {"exchange", "response", "broken"}}

\* C21: on one HTTP/2 connection the requests that have passed the streams
\* semaphore and whose response is not closed never number more than
\* max_concurrent_streams; a request passes the semaphore only when fewer
\* than that many hold it.
C21_StreamsWithinCap ==
    /\ [](Cardinality(Holders) <= h2.max)
    /\ [][\A t \in Tasks : h2pc[t] = "acquire" /\ h2pc'[t] = "exchange" =>
              Cardinality(Holders) < h2.max]_vars

\* A request waits for the semaphore while max_concurrent_streams requests
\* hold it, after an earlier stream was closed.
C21_Witness ==
    /\ Cardinality(Holders) = h2.max
    /\ \E t, u \in Tasks : h2pc[t] = "acquire" /\ h2pc[u] = "done"

\* C22 as stated: with retries = N a lazy connection that gets ConnectError
\* while connecting tries again; ConnectError reaches the caller only after
\* N+1 attempts have failed.
C22_ConnectRetried ==
    \A t \in Tasks : caller[t].result = "ConnectError" =>
        caller[t].tries = lazy.retries + 1

\* C23: in a proxy pool a forward connection accepts the requests for every
\* http origin and for no https origin, a tunnel accepts only those for the
\* origin it was created for, and a request is only ever given a connection
\* that accepts its origin.
C23_ProxyConnectionsByOrigin ==
    /\ \A c \in Range(pool) : \A o \in AllOrigins :
          /\ conn[c].kind \in {"forward", "tunnel"}
          /\ conn[c].kind = "forward" =>
                (can_handle_request(conn[c], o) <=> SchemeOf(o) = "http")
          /\ conn[c].kind = "tunnel" =>
                /\ SchemeOf(conn[c].origin) = "https"
                /\ can_handle_request(conn[c], o) <=> o = conn[c].origin
    /\ \A t \in Tasks : statusConn[t] # 0 =>
          LET cn == conn[statusConn[t]]
          IN IF SchemeOf(origin[t]) = "http"
             THEN cn.kind = "forward"
             ELSE cn.kind = "tunnel" /\ cn.origin = origin[t]

\* A forward connection that served a request to one http origin is sending
\* a request to another http origin.
C23_Witness ==
    \E t, u \in Tasks :
        /\ origin[t] # origin[u] /\ SchemeOf(origin[u]) = "http"
        /\ pc[u] = "done" /\ pc[t] = "exchange"
        /\ conn[statusConn[t]].kind = "forward"
        /\ conn[statusConn[t]].count = 2
        /\ \A w \in Tasks \ {t, u} : pc[w] = "start"

\* The tunnel that task t has been given.
IsTunnel(t) == statusConn[t] # 0 /\ conn[statusConn[t]].kind = "tunnel"

\* C24: on a tunnel no request is handed to the connection to the remote
\* origin before CONNECT has returned a 2xx status; CONNECT is issued under
\* the connect lock and only while the tunnel is not established, so a
\* tunnel is established at most once; a CONNECT response outside 2xx raises
\* ProxyError, closes the connection to the proxy and leaves the tunnel
\* unestablished.
C24_ConnectBeforeRequest ==
    /\ [](\A t \in Tasks : IsTunnel(t) =>
            LET c == statusConn[t]
            IN /\ pc[t] \in {"h11", "exchange", "response", "read"} =>
                      conn[c].connected
               /\ pc[t] \in {"connecting", "tunnel"} =>
                      reqLock[c] = t /\ ~conn[c].connected)
    /\ [][\A t \in Tasks : pc[t] = "tunnel" /\ pc'[t] # "tunnel" =>
              LET c == statusConn[t]
              IN IF pc'[t] = "h11"
                 THEN ~conn[c].connected /\ conn'[c].connected
                 ELSE /\ ~conn'[c].connected
                      /\ err'[t] = "ProxyError" => is_closed(conn'[c])]_vars

\* The proxy has refused the CONNECT of one request while another request
\* is being sent through an established tunnel.
C24_Witness ==
    \E t, u \in Tasks :
        /\ result[t] = "ProxyError"
        /\ IsTunnel(u) /\ pc[u] = "exchange" /\ conn[statusConn[u]].connected

\* C25 as stated: when pool.aclose completes, every connection that was in
\* the pool is CLOSED and the pool list and the waiter list are empty.
C25_CloseClosesAll ==
    [][poolClose # "closed" /\ poolClose' = "closed" =>
          /\ pool' = <<>> /\ requests' = <<>>
          /\ \A c \in Range(pool) : is_closed(conn[c])]_vars

\* C26 as stated: no connection method that may suspend is running while the
\* pool lock is held; here, no holder of the pool lock is waiting inside
\* connection.aclose.
C26_NoSuspensionUnderPoolLock ==
    lk.holder # 0 => lk.phase \notin {"evict_wait", "expire_wait", "ka_wait", "close_wait"}

\* C27 as stated: immediately after any response_closed call completes, no
\* connection in the pool has has_expired() true.
C27_NoExpiredAfterRelease ==
    [][\A t \in Tasks : ResponseClosedReturns(t) =>
          \A c \in Range(pool') : ~has_expired(conn'[c])]_vars

\* The connections given to a status in this step.
AssignedConns == {statusConn'[s] : s \in {u \in Tasks : Assigned(u)}}

AttemptsOnFullPool(t) ==
    /\ pc[t] \in {"start", "retry"} /\ t \in Range(requests')
    /\ Len(pool) >= max_connections
    /\ \A c \in Range(pool) :
          ~(can_handle_request(conn[c], origin[t]) /\ is_available(conn[c]))

\* The connections closed in this step.
ClosedInStep == {c \in ConnIds : is_closed(conn'[c]) /\ ~is_closed(conn[c])}

\* C29: with the pool at max_connections and no reusable connection, one
\* acquisition attempt closes and removes at most one connection, the idle
\* connection closest to the back of the pool list and never one that is not
\* idle; if no connection is idle the status stays unassigned and the pool is
\* unchanged.
C29_EvictsLastIdleOnly ==
    [][/\ \A t \in Tasks : AttemptsOnFullPool(t) =>
             /\ pool' = pool
             /\ statusConn'[t] = 0
             /\ IF pc'[t] = "locked"
                THEN /\ lk'.phase = "evict_wait"
                     /\ ClosedInStep = {pool[lk'.idx]}
                ELSE conn' = conn
             /\ IdleCount = 0 => pc'[t] = "wait"
       /\ lk'.holder # 0 /\ lk'.phase = "evict_wait" /\ lk' # lk =>
             /\ is_idle(conn[pool'[lk'.idx]])
             /\ \A j \in (lk'.idx + 1)..Len(pool') : ~is_idle(conn[pool'[j]])
             /\ ClosedInStep = {pool'[lk'.idx]}
       /\ \A t \in Tasks :
             pc[t] = "locked" /\ lk.phase = "evict_wait" /\ lk.ret = "enq"
                 /\ pc'[t] # "locked" =>
             /\ statusConn'[t] # 0
             /\ pool' = <<statusConn'[t]>> \o Pop(pool, lk.idx)
             /\ ClosedInStep = {}
      ]_vars

\* A request for another origin found the pool full of idle connections: the
\* one at the back has been closed, the one in front of it is still idle.
C29_Witness ==
    /\ lk.holder # 0 /\ lk.phase = "evict_wait" /\ lk.ret = "enq"
    /\ Len(pool) = 2 /\ lk.idx = 2
    /\ is_idle(conn[pool[1]]) /\ is_closed(conn[pool[2]])

\* C30 as stated: the keep-alive housekeeping closes a connection only while
\* the number of idle connections exceeds max_keepalive_connections, however
\* many active connections the pool holds.
C30_KeepaliveClosesOnlyAboveLimit ==
    [][lk'.holder # 0 /\ lk'.phase = "ka_wait" /\ lk' # lk =>
          Cardinality({i \in 1..Len(pool') : is_idle(conn[pool'[i]])})
              > max_keepalive_connections]_vars

\* The response of task t on the HTTP/2 connection is closed in this step.
H2ResponseCloses(t) == h2pc[t] \in {"response", "broken"} /\ h2pc'[t] = "done"

\* C31 as stated: when a response on an HTTP/2 connection is closed, its
\* permit of the streams semaphore is released and its event queue is
\* dropped; the connection becomes IDLE with expire_at armed exactly if no
\* other stream remains open, and stays ACTIVE otherwise.
C31_IdleIffLastStream ==
    [][\A t \in Tasks : H2ResponseCloses(t) =>
          /\ h2'.sem = h2.sem + 1
          /\ h2'.events = h2.events \ {h2sid[t]}
          /\ IF h2'.events = {}
             THEN h2'.state = "IDLE" /\ (h2.keepalive => h2'.exp = "armed")
             ELSE h2'.state = "ACTIVE"]_vars

\* C31, amended: the permit is released and the queue dropped; an ACTIVE
\* connection becomes IDLE with expire_at armed exactly if no other stream
\* remains open and stays ACTIVE otherwise; a connection that is not ACTIVE
\* keeps its state and its expire_at.
C31_ActiveIdleIffLastStream ==
    [][\A t \in Tasks : H2ResponseCloses(t) =>
          /\ h2'.sem = h2.sem + 1
          /\ h2'.events = h2.events \ {h2sid[t]}
          /\ IF h2.state # "ACTIVE"
             THEN h2'.state = h2.state /\ h2'.exp = h2.exp
             ELSE IF h2'.events = {}
             THEN /\ h2'.state = "IDLE"
                  /\ h2'.exp = IF h2.keepalive THEN "armed" ELSE h2.exp
             ELSE h2'.state = "ACTIVE" /\ h2'.exp = h2.exp]_vars

\* The last open stream of a connection with a keepalive_expiry has been
\* closed after another one: the connection is IDLE and expire_at is armed.
C31_Witness ==
    /\ h2.state = "IDLE" /\ h2.exp = "armed" /\ h2.events = {}
    /\ \E t, u \in Tasks : t # u /\ h2pc[t] = "done" /\ h2pc[u] = "done"

\* C32: on one lazy connection the transport connect runs under the request
\* lock and succeeds at most once; once the inner connection exists every
\* later request is forwarded to it, or raises ConnectionNotAvailable if the
\* inner connection is not available, and no second transport is opened.
C32_ConnectsOnce ==
    /\ [](/\ lazy.connects <= 1
          /\ lazy.cn.inner <=> lazy.connects = 1
          /\ \A t \in Tasks : caller[t].pc = "connecting" =>
                lazy.lock = t /\ ~lazy.cn.inner)
    /\ [][\A t \in Tasks :
            (caller[t].pc = "start" /\ caller'[t].pc # "start" /\ lazy.cn.inner) =>
              /\ lazy' = lazy
              /\ IF is_available(lazy.cn)
                 THEN caller'[t].pc = "h11"
                 ELSE /\ caller'[t].pc = "raised"
                      /\ caller'[t].result = "ConnectionNotAvailable"]_vars

\* One request has connected and has its response; another request, made
\* on the same connection, found the inner connection unavailable.
C32_Witness ==
    /\ lazy.connects = 1
    /\ \E t, u \in Tasks :
          /\ t # u
          /\ caller[t].result = "Response"
          /\ caller[u].result = "ConnectionNotAvailable"

\* The requests on the HTTP/2 connection that have left the init lock with
\* a stream id.
PastInit == {t \in Tasks : h2pc[t] \in {"acquire", "exchange", "response",
                                        "broken", "done"}}

C34_AssignedNotClosedByPool ==
    [][(/\ lk'.holder # 0 /\ lk' # lk
        /\ lk'.phase \in {"evict_wait", "expire_wait", "ka_wait"}) =>
          \A s \in Range(requests') :
              pc'[s] \notin {"rc_close", "rc_err", "locked"} =>
                  statusConn'[s] # pool'[lk'.idx]]_vars

\* C35 as stated: pool.response_closed always completes without raising: no
\* list.remove of a status or of a connection that is not in its list.
C35_ResponseClosedNeverRaises ==
    \A t \in Tasks :
        /\ result[t] # "ValueError"
        /\ "ValueError" \notin Range(closeResult[t])

\* C36 as stated: CLOSED is terminal: the connection of an outstanding
\* response that has been closed stays CLOSED whatever happens next, the
\* close of the response with both sides of the codec DONE included.
C36_ClosedIsTerminal ==
    [][\A t \in Tasks :
          pc[t] \in {"response", "read"} /\ is_closed(conn[statusConn[t]]) =>
              is_closed(conn'[statusConn[t]])]_vars

\* C37 as stated: an HTTP/2 connection reports is_idle() only when no request
\* is in flight on it, a request that was accepted but has not registered
\* its stream yet included.
C37_IdleMeansNoRequest ==
    h2_is_idle(h2) =>
        \A t \in Tasks : h2pc[t] \notin {"init", "init_wait", "acquire", "exchange",
                                         "response", "broken"}

\* C38 as stated: whenever the pool lock is free, every connection in the
\* pool list that is assigned to no request is idle, and so can be evicted:
\* none stays there unconnected, ACTIVE or CLOSED without a request.
C38_UnownedIsIdle ==
    lk.holder = 0 =>
        \A c \in Range(pool) :
            (\A s \in Range(requests) : statusConn[s] # c) => is_idle(conn[c])

\* C39 as stated: without cancellation and with every response closed, no
\* reachable state is a deadlock: every lock that is held is held by a task
\* inside the code the lock protects, which can go on without any other lock,
\* and whenever a task waits (for the pool lock, for the request lock of its
\* connection, or for a connection to be assigned to its status) some task
\* can take a step.
C39_NoDeadlock ==
    /\ lk.holder # 0 => pc[lk.holder] = "locked"
    /\ \A c \in ConnIds : reqLock[c] # 0 =>
          /\ pc[reqLock[c]] \in {"connecting", "tunnel"}
          /\ statusConn[reqLock[c]] = c
    /\ (\E t \in Tasks :
          \/ pc[t] \in {"start", "retry", "rc_err", "rc_close"} /\ lk.holder # 0
          \/ pc[t] = "wait" /\ statusConn[t] = 0
          \/ pc[t] = "wait" /\ statusConn[t] # 0 /\ reqLock[statusConn[t]] # 0)
        => (\E t \in Tasks : Runnable(t))

\* C40 as stated: every event read from the network for a stream whose
\* request is open is in the queue of that stream or was taken from it, in
\* arrival order, whichever request read it; a request takes only events of
\* its own stream; an error event of one stream is not raised in the request
\* of another stream and discards no event of another stream.
C40_EventsDemultiplexed ==
    /\ \A sid \in rx.open : rx.delivered[sid] \o rx.events[sid] = rx.arrived[sid]
    /\ \A sid \in Streams :
          /\ \A i \in 1..Len(rx.delivered[sid]) : rx.delivered[sid][i].sid = sid
          /\ rx.failed[sid] \in {0, sid}

====
